---- MODULE Spec2Model ----
(***************************************************************************)
(* Model of parser.py: FIRST / FOLLOW computation, LL(1) table and         *)
(* recognizer, LR(0) items, SLR(1) check, table and recognizer.            *)
(*                                                                         *)
(* A Python string is a sequence of one-character strings; a production is *)
(* the pair <<no_terminal, derivacion>>; ''  is the empty sequence.        *)
(* A call that raises an uncaught exception yields [ok |-> FALSE, ...].    *)
(***************************************************************************)
EXTENDS Integers, Sequences, FiniteSets, TLC

\* ------------------------------------------------------------------ bounds
\* Size of a generated grammar: one per production plus one per right-hand
\* side symbol.
MaxTamano == 6
\* Length of a generated input string (without the final '$').
MaxCadena == 2
\* Height of the recognizer's stack beyond which a run is not followed.
MaxPila == 6
\* Number of iterations for which a run of the SLR(1) recognizer is followed.
MaxPasos == 30

\* ------------------------------------------------------- symbols, grammars
\* The characters for which str.isupper() is true among those used here.
Mayusculas == {"S", "A", "B", "C", "E", "F", "T", "Z"}

isupper(s) == s \in Mayusculas

NoTerminalesBase == {"S", "A", "B"}
TerminalesBase == {"a", "b"}
SimbolosBase == NoTerminalesBase \cup TerminalesBase

\* None
Ninguno == <<"None">>

\* The symbols of a grammar in reading order.
RECURSIVE Aplanar(_)
Aplanar(g) ==
  IF g = <<>> THEN <<>> ELSE <<g[1][1]>> \o g[1][2] \o Aplanar(Tail(g))

\* x does not occur in s before y does.
NoAntes(x, y, s) ==
  \A k \in 1..Len(s) : s[k] = x => \E j \in 1..(k - 1) : s[j] = y

\* Of the grammars that differ only in the names of A, B or of a, b the one
\* is kept that introduces A before B and a before b.
Canonica(g) ==
  /\ NoAntes("B", "A", Aplanar(g))
  /\ NoAntes("b", "a", Aplanar(g))

\* The productions of size at most n, for every n.
ProduccionesHasta ==
  [n \in 0..MaxTamano |->
     {<<nt, d>> : nt \in NoTerminalesBase,
                  d \in UNION {[1..k -> SimbolosBase] : k \in 0..(n - 1)}}]

\* The generated grammars with at most j productions: at most MaxTamano
\* symbols, the first production belongs to S.
RECURSIVE GramaticasHasta(_)
GramaticasHasta(j) ==
  IF j = 1
    THEN {<<p>> : p \in {q \in ProduccionesHasta[MaxTamano] :
                           q[1] = "S" /\ Canonica(<<q>>)}}
    ELSE LET previas == GramaticasHasta(j - 1) IN
         previas \cup
         UNION {{h \in {Append(g, p) :
                          p \in ProduccionesHasta[MaxTamano - Len(Aplanar(g))]} :
                   Canonica(h)}
                : g \in {q \in previas : Len(q) = j - 1}}

Gramaticas == GramaticasHasta(MaxTamano)

RECURSIVE SetToSeq(_)
SetToSeq(S) ==
  IF S = {} THEN <<>>
  ELSE LET x == CHOOSE y \in S : TRUE IN <<x>> \o SetToSeq(S \ {x})

\* linea.strip() + "$"
ConFin(w) == w \o <<"$">>

Palabras == UNION {[1..k -> TerminalesBase] : k \in 0..MaxCadena}
CadenasBase == SetToSeq({ConFin(w) : w \in Palabras})

\* The grammars of the documented scenarios, with their input strings.
EjemploA ==
  [reglas |-> << <<"S", <<"S", "+", "T">> >>, <<"S", <<"T">> >>,
                 <<"T", <<"T", "*", "F">> >>, <<"T", <<"F">> >>,
                 <<"F", <<"(", "S", ")">> >>, <<"F", <<"1">> >> >>,
   cadenas |-> << <<"1", "+", "1", "$">>, <<"(", "1", ")", "$">>,
                  <<"1", "*", "1", "+", "1", "$">>, <<"1", "+", "$">> >>]

EjemploD ==
  [reglas |-> << <<"S", <<"a", "S", "b">> >>, <<"S", <<>> >> >>,
   cadenas |-> << <<"$">>, <<"a", "b", "$">>, <<"a", "a", "b", "b", "$">>,
                  <<"a", "a", "a", "b", "b", "b", "$">>,
                  <<"a", "b", "b", "$">>, <<"a", "a", "b", "$">> >>]

EjemploE ==
  [reglas |-> << <<"S", <<"A", "a">> >>, <<"S", <<"b", "A", "c">> >>,
                 <<"S", <<"d", "c">> >>, <<"S", <<"b", "d", "a">> >>,
                 <<"A", <<"d">> >> >>,
   cadenas |-> << <<"d", "a", "$">>, <<"b", "d", "c", "$">>,
                  <<"d", "c", "$">>, <<"b", "d", "a", "$">>,
                  <<"b", "d", "d", "$">> >>]

EjemploF ==
  [reglas |-> << <<"S", <<"S", "S">> >>, <<"S", <<"a">> >> >>,
   cadenas |-> << <<"a", "$">>, <<"a", "a", "$">> >>]

Ejemplos == {EjemploA, EjemploD, EjemploE, EjemploF}

\* Grammars with the character 'e' inside a right-hand side, as
\* leer_gramatica builds them from a token longer than one character
\* ("S -> ea"): only the token 'e' alone is turned into the empty string.
GramaticasConE ==
  {<< <<"S", <<"e", "a">> >> >>,
   << <<"S", <<"A", "e">> >> >>,
   << <<"S", <<"A", "e">> >>, <<"A", <<>> >> >>,
   << <<"S", <<"a", "e">> >>, <<"S", <<"A", "b">> >>, <<"A", <<"e">> \o <<"a">> >> >>}

Entradas ==
  {[reglas |-> g, cadenas |-> CadenasBase] : g \in Gramaticas \cup GramaticasConE}
  \cup Ejemplos

\* ------------------------------------------------------------------- state
VARIABLES
  reglas_gramatica,    \* global: list of productions
  cadenas_a_procesar,  \* global: list of input strings, each ending in '$'
  simbolo_inicial,     \* global: start symbol
  pc,                  \* position in the pipeline
  primeros,            \* FIRST map being computed / computed
  siguientes,          \* FOLLOW map being computed / computed
  visitados,           \* visited markers of agregar_follow
  hubo_cambios,        \* change flag of the running fixpoint loop
  idx,                 \* index of the next production in the running pass
  tabla_ll1,           \* result of construir_tabla_ll1: table
  conflictos_ll1,      \* result of construir_tabla_ll1: conflict flag
  es_slr1_valido,      \* outcome of the call of es_slr1
  llamada,             \* the running / last call of a function on the tables
  principal,           \* main: how far it is, the recognizer it chose, exit status
  archivos_leidos      \* the files handed to leer_gramatica so far, in order

\* ------------------------------------------------------ identificar_simbolos
Rango(s) == {s[k] : k \in 1..Len(s)}

conjunto_no_terminales(reglas) ==
  {reglas[k][1] : k \in 1..Len(reglas)} \cup
  {s \in UNION {Rango(reglas[k][2]) : k \in 1..Len(reglas)} : isupper(s)}

conjunto_terminales(reglas) ==
  {s \in UNION {Rango(reglas[k][2]) : k \in 1..Len(reglas)} :
     ~isupper(s) /\ s # "e"} \cup {"$"}

NT == conjunto_no_terminales(reglas_gramatica)
TT == conjunto_terminales(reglas_gramatica)

\* ------------------------------------------------ calcular_conjuntos_primeros
\* dict with every key of a set mapped to the empty set
Vacios(claves) == [k \in claves |-> {}]

\* A variant of the inner walk that stops at the first non-terminal, nullable
\* or not: what C7 rules out.
RecorrerPrimerosSinAvance(st, nt, deriv, i, CNT, CT) ==
  IF i > Len(deriv) THEN st
  ELSE
    LET simbolo == deriv[i] IN
    IF simbolo \in CT THEN
      [st EXCEPT !.p = [st.p EXCEPT ![nt] = @ \cup {simbolo}],
                 !.cambios = st.cambios \/ simbolo \notin st.p[nt],
                 !.todos = FALSE]
    ELSE IF simbolo \in CNT THEN
      [st EXCEPT !.p = [st.p EXCEPT ![nt] = @ \cup (st.p[simbolo] \ {"e"})],
                 !.todos = FALSE]
    ELSE [st EXCEPT !.colgado = TRUE]

\* The inner walk `while i < len(derivacion)` for one production, from
\* position i (1-based).  st = [p: FIRST map, cambios: flag, todos: flag,
\* colgado: flag]; colgado records a walk that never leaves position i.
RECURSIVE RecorrerPrimeros(_, _, _, _, _, _)
RecorrerPrimeros(st, nt, deriv, i, CNT, CT) ==
  IF i > Len(deriv) THEN st
  ELSE
    LET simbolo == deriv[i] IN
    IF simbolo \in CT THEN
      [st EXCEPT !.p = [st.p EXCEPT ![nt] = @ \cup {simbolo}],
                 !.cambios = st.cambios \/ simbolo \notin st.p[nt],
                 !.todos = FALSE]
    ELSE IF simbolo \in CNT THEN
      LET p1 == [st.p EXCEPT ![nt] = @ \cup (st.p[simbolo] \ {"e"})] IN
      IF "e" \notin p1[simbolo]
        THEN [st EXCEPT !.p = p1, !.todos = FALSE]
        ELSE RecorrerPrimeros([st EXCEPT !.p = p1], nt, deriv, i + 1, CNT, CT)
    ELSE [st EXCEPT !.colgado = TRUE]

\* The body of `for no_terminal, derivacion in reglas_gramatica` for one
\* production; st = [p, cambios, colgado].
PrimerosRegla(st, regla, CNT, CT) ==
  LET nt == regla[1]
      deriv == regla[2]
      tamano_anterior == Cardinality(st.p[nt])
      r1 == IF deriv = <<>> THEN
              [p |-> [st.p EXCEPT ![nt] = @ \cup {"e"}],
               cambios |-> st.cambios \/ "e" \notin st.p[nt],
               colgado |-> FALSE]
            ELSE
              LET w == RecorrerPrimeros(
                         [p |-> st.p, cambios |-> st.cambios, todos |-> TRUE,
                          colgado |-> FALSE], nt, deriv, 1, CNT, CT)
              IN IF w.colgado THEN [p |-> w.p, cambios |-> w.cambios, colgado |-> TRUE]
                 ELSE IF w.todos /\ "e" \notin w.p[nt] THEN
                   [p |-> [w.p EXCEPT ![nt] = @ \cup {"e"}], cambios |-> TRUE,
                    colgado |-> FALSE]
                 ELSE [p |-> w.p, cambios |-> w.cambios, colgado |-> FALSE]
  IN IF r1.colgado THEN r1
     ELSE [r1 EXCEPT !.cambios = @ \/ Cardinality(r1.p[nt]) > tamano_anterior]

\* One pass of the `while hubo_cambios` loop over the productions from index k.
RECURSIVE PasadaPrimeros(_, _, _, _, _)
PasadaPrimeros(st, reglas, k, CNT, CT) ==
  IF k > Len(reglas) \/ st.colgado THEN st
  ELSE PasadaPrimeros(PrimerosRegla(st, reglas[k], CNT, CT), reglas, k + 1, CNT, CT)

\* The whole function: passes until one changes nothing.
RECURSIVE IterarPrimeros(_, _, _, _)
IterarPrimeros(p, reglas, CNT, CT) ==
  LET st == PasadaPrimeros([p |-> p, cambios |-> FALSE, colgado |-> FALSE],
                           reglas, 1, CNT, CT)
  IN IF st.colgado THEN st
     ELSE IF st.cambios THEN IterarPrimeros(st.p, reglas, CNT, CT)
     ELSE st

calcular_conjuntos_primeros(reglas, CNT, CT) ==
  IterarPrimeros(Vacios(CNT), reglas, CNT, CT)

\* ---------------------------------------------- calcular_conjuntos_siguientes
\* agregar_follow(simbolo, no_terminal) on st = [s: FOLLOW map, v: visited
\* markers, cambios: flag]; the flag is raised when the call returns True.
agregar_follow(st, simbolo, no_terminal) ==
  IF st.v[simbolo] THEN st
  ELSE
    LET s1 == [st.s EXCEPT ![simbolo] = @ \cup st.s[no_terminal]] IN
    [s |-> s1,
     v |-> [st.v EXCEPT ![simbolo] = TRUE],
     cambios |-> st.cambios \/ Cardinality(s1[simbolo]) > Cardinality(st.s[simbolo])]

\* A variant of the body below that adds FIRST of the next symbol to FOLLOW
\* without removing 'e': what C6 rules out.
SiguientesPosicionConE(st, nt, deriv, i, prim, CNT, CT) ==
  LET simbolo == deriv[i] IN
  IF simbolo \notin CNT THEN st
  ELSE IF i + 1 <= Len(deriv) THEN
    LET siguiente == deriv[i + 1] IN
    IF siguiente \in CT THEN
      [st EXCEPT !.s = [st.s EXCEPT ![simbolo] = @ \cup {siguiente}],
                 !.cambios = st.cambios \/ siguiente \notin st.s[simbolo]]
    ELSE IF siguiente \in CNT THEN
      LET s1 == [st.s EXCEPT ![simbolo] = @ \cup prim[siguiente]]
          st1 == [st EXCEPT !.s = s1,
                            !.cambios = st.cambios \/
                               Cardinality(s1[simbolo]) > Cardinality(st.s[simbolo])]
      IN IF "e" \in prim[siguiente] /\ nt # simbolo
           THEN agregar_follow(st1, simbolo, nt)
           ELSE st1
    ELSE st
  ELSE IF nt # simbolo THEN agregar_follow(st, simbolo, nt)
  ELSE st

\* The body of `for i in range(len(derivacion))` at position i (1-based).
SiguientesPosicion(st, nt, deriv, i, prim, CNT, CT) ==
  LET simbolo == deriv[i] IN
  IF simbolo \notin CNT THEN st
  ELSE IF i + 1 <= Len(deriv) THEN
    LET siguiente == deriv[i + 1] IN
    IF siguiente \in CT THEN
      [st EXCEPT !.s = [st.s EXCEPT ![simbolo] = @ \cup {siguiente}],
                 !.cambios = st.cambios \/ siguiente \notin st.s[simbolo]]
    ELSE IF siguiente \in CNT THEN
      LET s1 == [st.s EXCEPT ![simbolo] = @ \cup (prim[siguiente] \ {"e"})]
          st1 == [st EXCEPT !.s = s1,
                            !.cambios = st.cambios \/
                               Cardinality(s1[simbolo]) > Cardinality(st.s[simbolo])]
      IN IF "e" \in prim[siguiente] /\ nt # simbolo
           THEN agregar_follow(st1, simbolo, nt)
           ELSE st1
    ELSE st
  ELSE IF nt # simbolo THEN agregar_follow(st, simbolo, nt)
  ELSE st

RECURSIVE RecorrerSiguientes(_, _, _, _, _, _, _)
RecorrerSiguientes(st, nt, deriv, i, prim, CNT, CT) ==
  IF i > Len(deriv) THEN st
  ELSE RecorrerSiguientes(SiguientesPosicion(st, nt, deriv, i, prim, CNT, CT),
                          nt, deriv, i + 1, prim, CNT, CT)

\* The body of `for no_terminal, derivacion in reglas_gramatica` for one
\* production.
SiguientesRegla(st, regla, prim, CNT, CT) ==
  RecorrerSiguientes(st, regla[1], regla[2], 1, prim, CNT, CT)

\* siguientes before the loop: '$' in the FOLLOW set of the start symbol
SiguientesInicial(inicial, CNT) ==
  [nt \in CNT |-> IF nt = inicial THEN {"$"} ELSE {}]

NoVisitados(CNT) == [nt \in CNT |-> FALSE]

RECURSIVE PasadaSiguientes(_, _, _, _, _, _)
PasadaSiguientes(st, reglas, k, prim, CNT, CT) ==
  IF k > Len(reglas) THEN st
  ELSE PasadaSiguientes(SiguientesRegla(st, reglas[k], prim, CNT, CT),
                        reglas, k + 1, prim, CNT, CT)

RECURSIVE IterarSiguientes(_, _, _, _, _)
IterarSiguientes(s, reglas, prim, CNT, CT) ==
  LET st == PasadaSiguientes([s |-> s, v |-> NoVisitados(CNT), cambios |-> FALSE],
                             reglas, 1, prim, CNT, CT)
  IN IF st.cambios THEN IterarSiguientes(st.s, reglas, prim, CNT, CT) ELSE st.s

\* The whole function, as the value it returns.
calcular_conjuntos_siguientes(reglas, inicial, prim, CNT, CT) ==
  IterarSiguientes(SiguientesInicial(inicial, CNT), reglas, prim, CNT, CT)

\* ------------------------------------------------------- construir_tabla_ll1
\* The walk that collects primeros_derivacion; [f: set, todos: flag,
\* colgado: flag].
RECURSIVE RecorrerDerivacion(_, _, _, _, _, _)
RecorrerDerivacion(f, deriv, i, prim, CNT, CT) ==
  IF i > Len(deriv) THEN [f |-> f, todos |-> TRUE, colgado |-> FALSE]
  ELSE
    LET simbolo == deriv[i] IN
    IF simbolo \in CT THEN
      [f |-> f \cup {simbolo}, todos |-> FALSE, colgado |-> FALSE]
    ELSE IF simbolo \in CNT THEN
      IF "e" \notin prim[simbolo]
        THEN [f |-> f \cup (prim[simbolo] \ {"e"}), todos |-> FALSE,
              colgado |-> FALSE]
        ELSE RecorrerDerivacion(f \cup (prim[simbolo] \ {"e"}), deriv, i + 1,
                                prim, CNT, CT)
    ELSE [f |-> f, todos |-> FALSE, colgado |-> TRUE]

\* primeros_derivacion of one production, with 'e' when every symbol is
\* nullable.
primeros_derivacion(deriv, prim, CNT, CT) ==
  LET w == RecorrerDerivacion({}, deriv, 1, prim, CNT, CT)
  IN IF w.todos THEN w.f \cup {"e"} ELSE w.f

\* Assign deriv to the cells (nt, t), t in celdas, of st = [t: table,
\* c: conflict flag]: a populated cell raises the flag and is overwritten.
AsignarCeldas(st, nt, celdas, deriv) ==
  [t |-> [st.t EXCEPT ![nt] = [x \in DOMAIN @ |-> IF x \in celdas THEN deriv ELSE @[x]]],
   c |-> st.c \/ \E x \in celdas : st.t[nt][x] # Ninguno]

\* The body of the loop of construir_tabla_ll1 for one production.
TablaRegla(st, regla, prim, sig, CNT, CT) ==
  LET nt == regla[1]
      deriv == regla[2]
      pd == primeros_derivacion(deriv, prim, CNT, CT)
      st1 == AsignarCeldas(st, nt, pd \ {"e"}, deriv)
  IN IF "e" \in pd THEN AsignarCeldas(st1, nt, sig[nt], deriv) ELSE st1

RECURSIVE LlenarTabla(_, _, _, _, _, _, _)
LlenarTabla(st, reglas, k, prim, sig, CNT, CT) ==
  IF k > Len(reglas) THEN st
  ELSE LlenarTabla(TablaRegla(st, reglas[k], prim, sig, CNT, CT),
                   reglas, k + 1, prim, sig, CNT, CT)

\* Returns [t |-> tabla_ll1, c |-> conflictos].
construir_tabla_ll1(reglas, prim, sig, CNT, CT) ==
  LlenarTabla([t |-> [nt \in CNT |-> [x \in CT |-> Ninguno]], c |-> FALSE],
              reglas, 1, prim, sig, CNT, CT)

\* --------------------------------------------------------------- analizar_ll1
\* reversed(produccion)
RECURSIVE Reverso(_)
Reverso(s) == IF s = <<>> THEN <<>> ELSE Reverso(Tail(s)) \o <<Head(s)>>

SinTope(pila) == SubSeq(pila, 1, Len(pila) - 1)

Retorno(ll, valor) == [ll EXCEPT !.estado = "retorno", !.resultado = valor]

\* pila = [simbolo_inicial, '$'] ; i = 0.  The top of the stack is the last
\* element of the list (pila[-1]).
LL1Inicial(cadena, inicial) ==
  [fn |-> "analizar_ll1", estado |-> "corriendo", cadena |-> cadena,
   pila |-> <<inicial, "$">>, i |-> 0, resultado |-> "None"]

\* A variant of the iteration below that accepts as soon as '$' is on top of
\* the stack, without looking at the input: what C2 rules out.
LL1PasoSinMirarEntrada(ll, tabla, CNT, CT) ==
  IF ll.pila = <<>> THEN Retorno(ll, "False")
  ELSE
    LET tope == ll.pila[Len(ll.pila)] IN
    IF tope = "$" THEN Retorno(ll, "True")
    ELSE IF tope \in CT THEN
      IF ll.i >= Len(ll.cadena) THEN Retorno(ll, "False")
      ELSE IF tope = ll.cadena[ll.i + 1]
        THEN [ll EXCEPT !.pila = SinTope(ll.pila), !.i = ll.i + 1]
        ELSE Retorno(ll, "False")
    ELSE
      IF ll.i >= Len(ll.cadena) THEN Retorno(ll, "False")
      ELSE
        LET simbolo_entrada == ll.cadena[ll.i + 1] IN
        IF simbolo_entrada \notin CT THEN Retorno(ll, "False")
        ELSE IF tope \notin CNT THEN
          [ll EXCEPT !.estado = "excepcion", !.resultado = "KeyError"]
        ELSE IF tabla[tope][simbolo_entrada] = Ninguno THEN Retorno(ll, "False")
        ELSE
          LET produccion == tabla[tope][simbolo_entrada] IN
          [ll EXCEPT !.pila = SinTope(ll.pila) \o Reverso(produccion)]

\* One iteration of `while pila`, including the loop test; i is 0-based as in
\* the source, cadena[i] is ll.cadena[ll.i + 1].
LL1Paso(ll, tabla, CNT, CT) ==
  IF ll.pila = <<>> THEN Retorno(ll, "False")
  ELSE
    LET tope == ll.pila[Len(ll.pila)] IN
    IF tope \in CT THEN
      IF ll.i >= Len(ll.cadena) THEN Retorno(ll, "False")
      ELSE IF tope = ll.cadena[ll.i + 1]
        THEN [ll EXCEPT !.pila = SinTope(ll.pila), !.i = ll.i + 1]
        ELSE Retorno(ll, "False")
    ELSE IF tope = "$" THEN
      IF ll.i = Len(ll.cadena) THEN Retorno(ll, "True") ELSE Retorno(ll, "False")
    ELSE
      IF ll.i >= Len(ll.cadena) THEN Retorno(ll, "False")
      ELSE
        LET simbolo_entrada == ll.cadena[ll.i + 1] IN
        IF simbolo_entrada \notin CT THEN Retorno(ll, "False")
        ELSE IF tope \notin CNT THEN
          [ll EXCEPT !.estado = "excepcion", !.resultado = "KeyError"]
        ELSE IF tabla[tope][simbolo_entrada] = Ninguno THEN Retorno(ll, "False")
        ELSE
          LET produccion == tabla[tope][simbolo_entrada] IN
          [ll EXCEPT !.pila = SinTope(ll.pila) \o Reverso(produccion)]

\* ---------------------------------------------------------------- LR(0) items
\* An item is <<<<no_terminal, derivacion>>, posicion>>, posicion 0-based.
\* simbolo_inicial + "'"
Prima(inicial) == inicial \o "'"

ItemInicial(inicial) == <<<<Prima(inicial), <<inicial>>>>, 0>>

Excepcion(e) == [ok |-> FALSE, exc |-> e]
Valor(v) == [ok |-> TRUE, val |-> v]

\* The argument of cerrar_item as its callers pass it: one item (a tuple) at
\* the head of es_slr1 and construir_tabla_slr1, a frozenset of items in ir_a.
Tupla(item) == [tipo |-> "tuple", v |-> item]
Frozenset(items) == [tipo |-> "frozenset", v |-> items]

\* One pass of `for (no_terminal, derivacion), posicion in items_cerrados`:
\* the items the pass adds.
nuevos_items(items_cerrados, reglas) ==
  {<<reglas[k], 0>> : k \in
     {j \in 1..Len(reglas) :
        \E it \in items_cerrados :
          /\ it[2] < Len(it[1][2])
          /\ isupper(it[1][2][it[2] + 1])
          /\ reglas[j][1] = it[1][2][it[2] + 1]}} \ items_cerrados

RECURSIVE CerrarItems(_, _)
CerrarItems(items_cerrados, reglas) ==
  LET nuevos == nuevos_items(items_cerrados, reglas) IN
  IF nuevos = {} THEN items_cerrados
  ELSE CerrarItems(items_cerrados \cup nuevos, reglas)

\* items_cerrados = {item}: the set holds the argument itself.  The loop
\* unpacks each element as ((no_terminal, derivacion), posicion).  When the
\* element is a frozenset of items, the unpacking fails unless it has exactly
\* two members (ValueError), and with two members it binds derivacion to an
\* item's position, so that len(derivacion) fails (TypeError).
cerrar_item(item, reglas) ==
  IF item.tipo = "frozenset" THEN
    IF Cardinality(item.v) = 2 THEN Excepcion("TypeError")
    ELSE Excepcion("ValueError")
  ELSE Valor(CerrarItems({item.v}, reglas))

\* The items of estado with simbolo after the dot, the dot advanced.
nuevo_estado(estado, simbolo) ==
  {<<it[1], it[2] + 1>> : it \in
     {x \in estado : x[2] < Len(x[1][2]) /\ x[1][2][x[2] + 1] = simbolo}}

ir_a(estado, simbolo, reglas) ==
  IF nuevo_estado(estado, simbolo) # {}
    THEN cerrar_item(Frozenset(nuevo_estado(estado, simbolo)), reglas)
    ELSE Valor({})

\* The symbols after a dot in estado.
simbolos(estado) ==
  {it[1][2][it[2] + 1] : it \in {x \in estado : x[2] < Len(x[1][2])}}

EstaEn(e, estados) == \E k \in 1..Len(estados) : estados[k] = e

\* The enumeration of the states, which es_slr1 and construir_tabla_slr1 both
\* run, is the record c = [estados: the list, i: the 0-based index of the
\* state being expanded, pend: the symbols of `for simbolo in simbolos` not
\* yet visited].  A Python set yields its members in no fixed order: the next
\* symbol is any member of pend.

\* `i += 1` and the next `simbolos`, until a state has symbols to visit or
\* `while i < len(estados)` fails.
RECURSIVE Avanzar(_)
Avanzar(c) ==
  IF c.pend # {} \/ c.i >= Len(c.estados) THEN c
  ELSE IF c.i + 1 < Len(c.estados)
    THEN Avanzar([c EXCEPT !.i = c.i + 1, !.pend = simbolos(c.estados[c.i + 2])])
    ELSE [c EXCEPT !.i = c.i + 1]

\* estados = [item_inicial]; i = 0
ColeccionInicial(reglas, inicial) ==
  LET item_inicial == cerrar_item(Tupla(ItemInicial(inicial)), reglas) IN
  IF ~item_inicial.ok THEN item_inicial
  ELSE Valor(Avanzar([estados |-> <<item_inicial.val>>, i |-> 0,
                      pend |-> simbolos(item_inicial.val)]))

\* The body of `for simbolo in simbolos` for one symbol of pend.
ColeccionPaso(c, simbolo, reglas) ==
  LET siguiente_estado == ir_a(c.estados[c.i + 1], simbolo, reglas) IN
  IF ~siguiente_estado.ok THEN siguiente_estado
  ELSE Valor(Avanzar(
         [c EXCEPT !.estados =
                      IF siguiente_estado.val # {} /\
                         ~EstaEn(siguiente_estado.val, c.estados)
                        THEN Append(c.estados, siguiente_estado.val)
                        ELSE c.estados,
                   !.pend = c.pend \ {simbolo}]))

\* `while i < len(estados)` has failed.
Terminada(c) == c.i >= Len(c.estados)

\* -------------------------------------------------------------------- es_slr1
\* reducciones of a state: its complete items but the augmented one.
reducciones(estado, inicial) ==
  {it \in estado : it[2] = Len(it[1][2]) /\ it[1][1] # Prima(inicial)}

desplazamientos(estado, CT) ==
  {s \in simbolos(estado) : s \in CT}

\* The conflicts es_slr1 flags in one state.
ConflictoEstado(estado, inicial, sig, CT) ==
  \/ \E it \in reducciones(estado, inicial) :
       \E t \in sig[it[1][1]] : t \in desplazamientos(estado, CT)
  \/ Cardinality(reducciones(estado, inicial)) > 1

\* The value es_slr1 returns once the list estados is complete:
\* `not conflictos`.
es_slr1(estados, inicial, sig, CT) ==
  IF \E k \in 1..Len(estados) : ConflictoEstado(estados[k], inicial, sig, CT)
    THEN "False"
    ELSE "True"

\* ------------------------------------------------------- construir_tabla_slr1
\* Table cells: an action or None.
SinAccion == [op |-> "None"]
Desplazar(j) == [op |-> "desplazar", n |-> j]
Reducir(r) == [op |-> "reducir", n |-> r]
Aceptar == [op |-> "aceptar"]
\* tabla_goto cells: a state index or None.
SinGoto == [op |-> "None"]
Ir(j) == [op |-> "ir", n |-> j]

\* reglas_ampliadas: the augmented production at index 0, then the grammar.
reglas_ampliadas(reglas, inicial) ==
  <<ItemInicial(inicial)>> \o [k \in 1..Len(reglas) |-> <<reglas[k], 0>>]

\* list.index: the 0-based position of the first occurrence.
Indice(lista, x) ==
  (CHOOSE k \in 1..Len(lista) :
     lista[k] = x /\ \A j \in 1..(k - 1) : lista[j] # x) - 1

\* tabla_accion[i][t] = a, where the cell may hold an action already.
\* reemplazos records the cells whose action is replaced by a different one.
PonerAccion(tb, i, t, a) ==
  [tb EXCEPT !.accion = [tb.accion EXCEPT ![i] = [@ EXCEPT ![t] = a]],
             !.reemplazos =
                IF tb.accion[i][t] # SinAccion /\ tb.accion[i][t] # a
                  THEN tb.reemplazos \cup {<<i, t>>} ELSE tb.reemplazos]

\* `for t in siguientes[no_terminal]` for a complete item: a populated cell is
\* reported and kept, an empty one receives the reduction.
PonerReducciones(tb, i, ts, r) ==
  [tb EXCEPT !.accion = [tb.accion EXCEPT ![i] =
                 [t \in DOMAIN @ |-> IF t \in ts /\ @[t] = SinAccion
                                       THEN Reducir(r) ELSE @[t]]],
             !.reportados = tb.reportados \cup
                 {<<i, t>> : t \in {x \in ts : tb.accion[i][x] # SinAccion}}]

\* The body of `for (no_terminal, derivacion), posicion in estado` for one
\* item of state i (0-based); [ok |-> FALSE, ...] when ir_a raises.
TablaItem(tb, i, it, estados, reglas, inicial, sig, CNT, CT) ==
  IF it[2] < Len(it[1][2]) THEN
    LET simbolo == it[1][2][it[2] + 1]
        siguiente_estado == ir_a(estados[i + 1], simbolo, reglas)
    IN IF simbolo \in CT THEN
         IF ~siguiente_estado.ok THEN siguiente_estado
         ELSE Valor(PonerAccion(tb, i, simbolo,
                                Desplazar(Indice(estados, siguiente_estado.val))))
       ELSE IF simbolo \in CNT THEN
         IF ~siguiente_estado.ok THEN siguiente_estado
         ELSE Valor([tb EXCEPT !.goto = [tb.goto EXCEPT ![i] =
                        [@ EXCEPT ![simbolo] = Ir(Indice(estados, siguiente_estado.val))]]])
       ELSE Valor(tb)
  ELSE IF it[1][1] = Prima(inicial) THEN Valor(PonerAccion(tb, i, "$", Aceptar))
  ELSE Valor(PonerReducciones(tb, i, sig[it[1][1]],
                              Indice(reglas_ampliadas(reglas, inicial), <<it[1], 0>>)))

\* The items still to visit (pend) of state i, then the states after it.
\* ordI[k] lists the items of state k in the order in which the set yields
\* them.
RECURSIVE LlenarSLR(_, _, _, _, _, _, _, _, _, _)
LlenarSLR(tb, i, pend, estados, ordI, reglas, inicial, sig, CNT, CT) ==
  IF pend # <<>> THEN
    LET r == TablaItem(tb, i, Head(pend), estados, reglas, inicial, sig, CNT, CT)
    IN IF ~r.ok THEN r
       ELSE LlenarSLR(r.val, i, Tail(pend), estados, ordI, reglas, inicial, sig,
                      CNT, CT)
  ELSE IF i + 1 < Len(estados) THEN
    LlenarSLR(tb, i + 1, ordI[i + 2], estados, ordI, reglas, inicial, sig, CNT, CT)
  ELSE Valor(tb)


TablasVacias(n, CNT, CT) ==
  [accion |-> [i \in 0..(n - 1) |-> [t \in CT |-> SinAccion]],
   goto |-> [i \in 0..(n - 1) |-> [nt \in CNT |-> SinGoto]],
   reportados |-> {},
   reemplazos |-> {}]

\* The tables for the list estados, the items of each state visited in the
\* order ordI.
LlenarTablas(estados, ordI, reglas, inicial, sig, CNT, CT) ==
  LET r == LlenarSLR(TablasVacias(Len(estados), CNT, CT), 0, ordI[1], estados,
                     ordI, reglas, inicial, sig, CNT, CT)
  IN IF ~r.ok THEN r
     ELSE Valor([accion |-> r.val.accion, goto |-> r.val.goto,
                 reportados |-> r.val.reportados, reemplazos |-> r.val.reemplazos,
                 estados |-> estados,
                 reglas_ampliadas |-> reglas_ampliadas(reglas, inicial)])

\* The orders in which the items of a set can be visited.
RECURSIVE Ordenes(_)
Ordenes(S) ==
  IF S = {} THEN {<<>>}
  ELSE UNION {{<<x>> \o o : o \in Ordenes(S \ {x})} : x \in S}

OrdenesItems(estados) ==
  {f \in [1..Len(estados) -> UNION {Ordenes(estados[k]) : k \in 1..Len(estados)}] :
     \A k \in 1..Len(estados) : f[k] \in Ordenes(estados[k])}

\* What construir_tabla_slr1 returns once the list estados is complete:
\* Valor(tables), or the exception that ends the call.
construir_tabla_slr1(estados, ordI, reglas, inicial, sig, CNT, CT) ==
  LlenarTablas(estados, ordI, reglas, inicial, sig, CNT, CT)

\* ------------------------------------------------------------- analizar_slr1
SLR1Inicial(cadena) ==
  [estado |-> "corriendo", cadena |-> cadena, pila_estados |-> <<0>>,
   pila_simbolos |-> <<>>, i |-> 0, resultado |-> "None"]

\* Pop n entries of a list, as long as it has any.
Quitar(pila, n) == SubSeq(pila, 1, IF Len(pila) > n THEN Len(pila) - n ELSE 0)

\* dict.get(clave): the value of the key, None when the dict has no such key.
Get(dict, clave, nada) == IF clave \in DOMAIN dict THEN dict[clave] ELSE nada

\* SLR1Paso with a shift that pushes the state and leaves the symbol stack
\* as it is.
SLR1PasoSinSimbolo(ll, tb, CT) ==
  LET estado_actual == ll.pila_estados[Len(ll.pila_estados)]
      simbolo_entrada == IF ll.i >= Len(ll.cadena) THEN "$" ELSE ll.cadena[ll.i + 1]
  IN
  IF simbolo_entrada \notin CT THEN Retorno(ll, "False")
  ELSE
    LET accion == Get(tb.accion[estado_actual], simbolo_entrada, SinAccion) IN
    IF accion = SinAccion THEN Retorno(ll, "False")
    ELSE IF accion.op = "desplazar" THEN
      [ll EXCEPT !.pila_estados = Append(@, accion.n),
                 !.i = @ + 1]
    ELSE IF accion.op = "reducir" THEN
      LET regla == tb.reglas_ampliadas[accion.n + 1][1]
          pe == Quitar(ll.pila_estados, Len(regla[2]))
          ps == Quitar(ll.pila_simbolos, Len(regla[2]))
      IN IF pe = <<>> THEN
           [Retorno(ll, "False") EXCEPT !.pila_estados = pe, !.pila_simbolos = ps]
         ELSE
           LET estado_goto == Get(tb.goto[pe[Len(pe)]], regla[1], SinGoto) IN
           IF estado_goto = SinGoto THEN
             [Retorno(ll, "False") EXCEPT !.pila_estados = pe,
                                          !.pila_simbolos = Append(ps, regla[1])]
           ELSE [ll EXCEPT !.pila_estados = Append(pe, estado_goto.n),
                           !.pila_simbolos = Append(ps, regla[1])]
    ELSE IF accion.op = "aceptar" THEN Retorno(ll, "True")
    ELSE Retorno(ll, "False")

\* One iteration of `while True`.
SLR1Paso(ll, tb, CT) ==
  LET estado_actual == ll.pila_estados[Len(ll.pila_estados)]
      simbolo_entrada == IF ll.i >= Len(ll.cadena) THEN "$" ELSE ll.cadena[ll.i + 1]
  IN
  IF simbolo_entrada \notin CT THEN Retorno(ll, "False")
  ELSE
    LET accion == Get(tb.accion[estado_actual], simbolo_entrada, SinAccion) IN
    IF accion = SinAccion THEN Retorno(ll, "False")
    ELSE IF accion.op = "desplazar" THEN
      [ll EXCEPT !.pila_estados = Append(@, accion.n),
                 !.pila_simbolos = Append(@, simbolo_entrada),
                 !.i = @ + 1]
    ELSE IF accion.op = "reducir" THEN
      LET regla == tb.reglas_ampliadas[accion.n + 1][1]
          pe == Quitar(ll.pila_estados, Len(regla[2]))
          ps == Quitar(ll.pila_simbolos, Len(regla[2]))
      IN IF pe = <<>> THEN
           [Retorno(ll, "False") EXCEPT !.pila_estados = pe, !.pila_simbolos = ps]
         ELSE
           LET estado_goto == Get(tb.goto[pe[Len(pe)]], regla[1], SinGoto) IN
           IF estado_goto = SinGoto THEN
             [Retorno(ll, "False") EXCEPT !.pila_estados = pe,
                                          !.pila_simbolos = Append(ps, regla[1])]
           ELSE [ll EXCEPT !.pila_estados = Append(pe, estado_goto.n),
                           !.pila_simbolos = Append(ps, regla[1])]
    ELSE IF accion.op = "aceptar" THEN Retorno(ll, "True")
    ELSE Retorno(ll, "False")

\* The loop, followed for at most n iterations.
RECURSIVE SLR1Correr(_, _, _, _)
SLR1Correr(ll, tb, CT, n) ==
  IF ll.estado # "corriendo" \/ n = 0 THEN ll
  ELSE SLR1Correr(SLR1Paso(ll, tb, CT), tb, CT, n - 1)

\* ------------------------------------------------------------- the pipeline
vars == <<reglas_gramatica, cadenas_a_procesar, simbolo_inicial, pc, primeros,
          siguientes, visitados, hubo_cambios, idx, tabla_ll1, conflictos_ll1,
          es_slr1_valido, llamada, principal, archivos_leidos>>

globales == <<reglas_gramatica, cadenas_a_procesar, simbolo_inicial>>

SinLlamada == [fn |-> "ninguna", estado |-> "retorno"]

\* main and the process it runs in.
proceso == <<principal, archivos_leidos>>

\* main is running, it has chosen no recognizer, the process has not ended.
PrincipalInicial ==
  [estado |-> "corriendo", usar |-> "None", salida |-> "None"]

\* The symbols of the grammar, which the sets of symbols are made of.
SimbolosGramatica == Rango(Aplanar(reglas_gramatica))

\* The state on entry to calcular_conjuntos_primeros: the globals as
\* leer_gramatica leaves them, the FIRST sets empty.
Init ==
  \E e \in Entradas :
    /\ reglas_gramatica = e.reglas
    /\ cadenas_a_procesar = e.cadenas
    /\ simbolo_inicial = e.reglas[1][1]
    /\ pc = "primeros"
    /\ primeros = Vacios(conjunto_no_terminales(e.reglas))
    /\ siguientes = Vacios(conjunto_no_terminales(e.reglas))
    /\ visitados = NoVisitados(conjunto_no_terminales(e.reglas))
    /\ hubo_cambios = TRUE
    /\ idx = 0
    /\ tabla_ll1 = <<>>
    /\ conflictos_ll1 = FALSE
    /\ es_slr1_valido = [estado |-> "inactivo", resultado |-> "None"]
    /\ llamada = SinLlamada
    /\ principal = PrincipalInicial
    /\ archivos_leidos = <<>>

\* One pass of the `while hubo_cambios` loop of calcular_conjuntos_primeros.
PrimerosPasada ==
  /\ pc = "primeros"
  /\ hubo_cambios
  /\ LET st == PasadaPrimeros([p |-> primeros, cambios |-> FALSE, colgado |-> FALSE],
                              reglas_gramatica, 1, NT, TT)
     IN /\ primeros' = st.p
        /\ hubo_cambios' = st.cambios
        /\ pc' = IF st.colgado THEN "colgado" ELSE "primeros"
  /\ UNCHANGED <<globales, proceso, siguientes, visitados, idx, tabla_ll1, conflictos_ll1,
                 es_slr1_valido, llamada>>

\* calcular_conjuntos_primeros returns; calcular_conjuntos_siguientes starts
\* and seeds the FOLLOW set of the start symbol.
SiguientesInicio ==
  /\ pc = "primeros"
  /\ ~hubo_cambios
  /\ pc' = "siguientes"
  /\ siguientes' = SiguientesInicial(simbolo_inicial, NT)
  /\ visitados' = NoVisitados(NT)
  /\ hubo_cambios' = TRUE
  /\ idx' = 0
  /\ UNCHANGED <<globales, proceso, primeros, tabla_ll1, conflictos_ll1, es_slr1_valido,
                 llamada>>

\* The `while hubo_cambios` test succeeds: a pass starts.
SiguientesPasada ==
  /\ pc = "siguientes"
  /\ idx = 0
  /\ hubo_cambios
  /\ hubo_cambios' = FALSE
  /\ visitados' = NoVisitados(NT)
  /\ idx' = IF Len(reglas_gramatica) >= 1 THEN 1 ELSE 0
  /\ UNCHANGED <<globales, proceso, pc, primeros, siguientes, tabla_ll1, conflictos_ll1,
                 es_slr1_valido, llamada>>

\* The pass handles production idx.
SiguientesPaso ==
  /\ pc = "siguientes"
  /\ idx \in 1..Len(reglas_gramatica)
  /\ LET st == SiguientesRegla([s |-> siguientes, v |-> visitados,
                                cambios |-> hubo_cambios],
                               reglas_gramatica[idx], primeros, NT, TT)
     IN /\ siguientes' = st.s
        /\ visitados' = st.v
        /\ hubo_cambios' = st.cambios
  /\ idx' = IF idx < Len(reglas_gramatica) THEN idx + 1 ELSE 0
  /\ UNCHANGED <<globales, proceso, pc, primeros, tabla_ll1, conflictos_ll1,
                 es_slr1_valido, llamada>>

\* calcular_conjuntos_siguientes returns and construir_tabla_ll1 runs.
ConstruirTablaLL1 ==
  /\ pc = "siguientes"
  /\ idx = 0
  /\ ~hubo_cambios
  /\ LET r == construir_tabla_ll1(reglas_gramatica, primeros, siguientes, NT, TT)
     IN /\ tabla_ll1' = r.t
        /\ conflictos_ll1' = r.c
  /\ pc' = "es_slr1"
  /\ UNCHANGED <<globales, proceso, primeros, siguientes, visitados, hubo_cambios, idx,
                 es_slr1_valido, llamada>>

\* The enumeration a call is running, or the one it starts with.
ColeccionDe(r) ==
  IF r.estado = "corriendo" THEN Valor(r.c)
  ELSE ColeccionInicial(reglas_gramatica, simbolo_inicial)

\* One iteration of `for simbolo in simbolos` in es_slr1, with the conflict
\* check and the return when it was the last one.
EsSLR1Paso ==
  /\ pc = "es_slr1"
  /\ LET c == ColeccionDe(es_slr1_valido) IN
     IF ~c.ok THEN
       es_slr1_valido' = [estado |-> "excepcion", resultado |-> c.exc]
     ELSE
       \E simbolo \in c.val.pend :
         LET r == ColeccionPaso(c.val, simbolo, reglas_gramatica) IN
         es_slr1_valido' =
           IF ~r.ok THEN [estado |-> "excepcion", resultado |-> r.exc]
           ELSE IF Terminada(r.val) THEN
             [estado |-> "retorno",
              resultado |-> es_slr1(r.val.estados, simbolo_inicial, siguientes, TT)]
           ELSE [estado |-> "corriendo", c |-> r.val]
  /\ pc' = IF es_slr1_valido'.estado = "corriendo" THEN "es_slr1" ELSE "principal"
  /\ UNCHANGED <<globales, proceso, primeros, siguientes, visitados, hubo_cambios, idx,
                 tabla_ll1, conflictos_ll1, llamada>>

\* main after the call of es_slr1.  An exception es_slr1 raised is caught
\* nowhere: the process ends with a traceback and exit status 1.  Otherwise
\* main chooses the recognizer from the two verdicts: when both hold, the
\* answer to input() decides; when neither holds, the batch is skipped.
PrincipalElige ==
  /\ pc = "principal"
  /\ \E opcion \in {"1", "2"} :
       principal' =
         IF es_slr1_valido.estado = "excepcion" THEN
           [estado |-> "abortado", usar |-> "None", salida |-> "1"]
         ELSE
           LET es_ll1 == ~conflictos_ll1
               slr1 == es_slr1_valido.resultado = "True"
           IN IF es_ll1 /\ slr1 THEN
                [estado |-> "analizando",
                 usar |-> IF opcion = "1" THEN "ll1" ELSE "slr1", salida |-> "None"]
              ELSE IF es_ll1 THEN
                [estado |-> "analizando", usar |-> "ll1", salida |-> "None"]
              ELSE IF slr1 THEN
                [estado |-> "analizando", usar |-> "slr1", salida |-> "None"]
              ELSE [estado |-> "omitido", usar |-> "ninguno", salida |-> "None"]
  /\ pc' = "listo"
  /\ UNCHANGED <<globales, archivos_leidos, primeros, siguientes, visitados,
                 hubo_cambios, idx, tabla_ll1, conflictos_ll1, es_slr1_valido,
                 llamada>>

\* The calls below are calls of the functions of the module on the sets and
\* tables computed so far, as any caller of the module makes them, whatever
\* main did: each function is followed on every grammar.
EnCurso == llamada.estado = "corriendo"

\* analizar_ll1 is called on one of the input strings.
AnalizarLL1 ==
  /\ pc = "listo"
  /\ ~EnCurso
  /\ \E k \in 1..Len(cadenas_a_procesar) :
       llamada' = LL1Inicial(cadenas_a_procesar[k], simbolo_inicial)
  /\ UNCHANGED <<globales, proceso, pc, primeros, siguientes, visitados, hubo_cambios,
                 idx, tabla_ll1, conflictos_ll1, es_slr1_valido>>

\* One iteration of the loop of analizar_ll1.
AnalizarLL1Paso ==
  /\ pc = "listo"
  /\ llamada.fn = "analizar_ll1"
  /\ EnCurso
  /\ Len(llamada.pila) <= MaxPila
  /\ llamada' = LL1Paso(llamada, tabla_ll1, NT, TT)
  /\ UNCHANGED <<globales, proceso, pc, primeros, siguientes, visitados, hubo_cambios,
                 idx, tabla_ll1, conflictos_ll1, es_slr1_valido>>

\* The record of a call of construir_tabla_slr1 that has ended, followed,
\* when it returned, by a call of analizar_slr1 on its tables.
LlamadaSLR1(cadena, construccion) ==
  IF ~construccion.ok THEN
    [fn |-> "construir_tabla_slr1", estado |-> "excepcion", cadena |-> cadena,
     resultado |-> construccion.exc]
  ELSE
    LET ll == SLR1Correr(SLR1Inicial(cadena), construccion.val, TT, MaxPasos) IN
    [fn |-> "analizar_slr1", estado |-> ll.estado, cadena |-> cadena,
     resultado |-> ll.resultado, tablas |-> construccion.val,
     pila_estados |-> ll.pila_estados, pila_simbolos |-> ll.pila_simbolos,
     i |-> ll.i]

\* construir_tabla_slr1 is called in order to analyse one of the input
\* strings.
ConstruirTablaSLR1 ==
  /\ pc = "listo"
  /\ ~EnCurso
  /\ \E k \in 1..Len(cadenas_a_procesar) :
       llamada' = [fn |-> "construir_tabla_slr1", estado |-> "corriendo",
                   cadena |-> cadenas_a_procesar[k], c |-> <<>>]
  /\ UNCHANGED <<globales, proceso, pc, primeros, siguientes, visitados, hubo_cambios,
                 idx, tabla_ll1, conflictos_ll1, es_slr1_valido>>

\* One iteration of `for simbolo in simbolos` in construir_tabla_slr1; after
\* the last one the tables are filled, the function returns and
\* analizar_slr1 runs on the tables.
ConstruirTablaSLR1Paso ==
  /\ pc = "listo"
  /\ llamada.fn = "construir_tabla_slr1"
  /\ EnCurso
  /\ LET c == IF llamada.c = <<>>
                THEN ColeccionInicial(reglas_gramatica, simbolo_inicial)
                ELSE Valor(llamada.c)
     IN
     IF ~c.ok THEN llamada' = LlamadaSLR1(llamada.cadena, c)
     ELSE
       \E simbolo \in c.val.pend :
         LET r == ColeccionPaso(c.val, simbolo, reglas_gramatica) IN
         IF ~r.ok THEN llamada' = LlamadaSLR1(llamada.cadena, r)
         ELSE IF Terminada(r.val) THEN
           \E ordI \in OrdenesItems(r.val.estados) :
             llamada' = LlamadaSLR1(llamada.cadena,
                          construir_tabla_slr1(r.val.estados, ordI,
                             reglas_gramatica, simbolo_inicial, siguientes, NT, TT))
         ELSE llamada' = [llamada EXCEPT !.c = r.val]
  /\ UNCHANGED <<globales, proceso, pc, primeros, siguientes, visitados, hubo_cambios,
                 idx, tabla_ll1, conflictos_ll1, es_slr1_valido>>

Next ==
  \/ PrimerosPasada
  \/ SiguientesInicio
  \/ SiguientesPasada
  \/ SiguientesPaso
  \/ ConstruirTablaLL1
  \/ EsSLR1Paso
  \/ PrincipalElige
  \/ AnalizarLL1
  \/ AnalizarLL1Paso
  \/ ConstruirTablaSLR1
  \/ ConstruirTablaSLR1Paso

Spec == Init /\ [][Next]_vars

\* ------------------------------------------------------------ leer_gramatica
\* A file is [existe, lineas]: whether open() finds it, and its lines without
\* the line ends.  A line is a Python string, a sequence of characters.

\* Number of calls of leer_gramatica that are followed.
MaxCargas == 3

\* str.lstrip() on a line: the blanks of these files are spaces.
RECURSIVE lstrip(_)
lstrip(s) == IF s # <<>> /\ Head(s) = " " THEN lstrip(Tail(s)) ELSE s

\* str.strip()
strip(s) == Reverso(lstrip(Reverso(lstrip(s))))

\* str.split(sep), `actual` being the piece read so far.
RECURSIVE Dividir(_, _, _)
Dividir(s, sep, actual) ==
  IF s = <<>> THEN <<actual>>
  ELSE IF Len(s) >= Len(sep) /\ SubSeq(s, 1, Len(sep)) = sep
    THEN <<actual>> \o Dividir(SubSeq(s, Len(sep) + 1, Len(s)), sep, <<>>)
    ELSE Dividir(Tail(s), sep, Append(actual, Head(s)))

split(s, sep) == Dividir(s, sep, <<>>)

Digitos == {"0", "1", "2"}

ValorDigito(c) == CASE c = "0" -> 0 [] c = "1" -> 1 [] c = "2" -> 2

RECURSIVE Numero(_, _)
Numero(s, acc) ==
  IF s = <<>> THEN acc ELSE Numero(Tail(s), 10 * acc + ValorDigito(Head(s)))

SoloDigitos(s) == s # <<>> /\ \A k \in 1..Len(s) : s[k] \in Digitos

\* int(s) of a stripped string: digits, a sign before them allowed; anything
\* else, the empty string included, raises ValueError.
int(s) ==
  IF SoloDigitos(s) THEN Valor(Numero(s, 0))
  ELSE IF s # <<>> /\ s[1] = "-" /\ SoloDigitos(Tail(s))
    THEN Valor(0 - Numero(Tail(s), 0))
  ELSE Excepcion("ValueError")

\* The characters of a string as one name: partes[0] names a non-terminal.
RECURSIVE Unir(_)
Unir(s) == IF s = <<>> THEN "" ELSE Head(s) \o Unir(Tail(s))

\* archivo.readline(): the n-th line, '' once the file has ended.
readline(lineas, n) == IF n <= Len(lineas) THEN lineas[n] ELSE <<>>

\* The productions one rule line adds to reglas_gramatica: one for every
\* piece between two spaces, the piece 'e' as the empty string.
ReglasDeLinea(no_terminal, derivaciones) ==
  [k \in 1..Len(derivaciones) |->
     <<no_terminal,
       IF derivaciones[k] = <<"e">> THEN <<>> ELSE derivaciones[k]>>]

\* `for i in range(numero_reglas)` from iteration i on.  st holds the
\* globals and whether exit() was called.
RECURSIVE LeerReglas(_, _, _, _)
LeerReglas(lineas, numero_reglas, i, st) ==
  IF i >= numero_reglas THEN st
  ELSE
    LET regla == strip(readline(lineas, i + 2))
        partes == split(regla, <<"-", ">">>)
    IN IF Len(partes) # 2 THEN [st EXCEPT !.salio = TRUE]
       ELSE
         LET no_terminal == Unir(strip(partes[1]))
             derivaciones == split(strip(partes[2]), <<" ">>)
         IN LeerReglas(lineas, numero_reglas, i + 1,
              [st EXCEPT
                 !.inicial = IF i = 0 THEN no_terminal ELSE st.inicial,
                 !.reglas = st.reglas \o ReglasDeLinea(no_terminal, derivaciones)])

\* `for linea in archivo`: the lines from the n-th on, up to the line 'e'.
RECURSIVE LeerCadenas(_, _)
LeerCadenas(lineas, n) ==
  IF n > Len(lineas) THEN <<>>
  ELSE LET linea == ConFin(strip(lineas[n])) IN
       IF linea = <<"e", "$">> THEN <<>>
       ELSE <<linea>> \o LeerCadenas(lineas, n + 1)

\* leer_gramatica(nombre_archivo) called when the global simbolo_inicial is
\* `inicial`: the globals it leaves and whether it called exit().
leer_gramatica(archivo, inicial) ==
  LET vacio == [reglas |-> <<>>, cadenas |-> <<>>, inicial |-> inicial,
                salio |-> FALSE]
  IN IF ~archivo.existe THEN [vacio EXCEPT !.salio = TRUE]
     ELSE
       LET numero_reglas == int(strip(readline(archivo.lineas, 1))) IN
       IF ~numero_reglas.ok THEN [vacio EXCEPT !.salio = TRUE]
       ELSE
         LET st == LeerReglas(archivo.lineas, numero_reglas.val, 0, vacio)
             leidas == IF numero_reglas.val > 0 THEN numero_reglas.val ELSE 0
         IN IF st.salio THEN st
            ELSE [st EXCEPT !.cadenas = LeerCadenas(archivo.lineas, leidas + 2)]

\* The files that are loaded.
ArchivoQueFalta == [existe |-> FALSE, lineas |-> <<>>]

\* an empty file
ArchivoVacio ==
  [existe |-> TRUE,
   lineas |-> <<>>]

\* the first line is not an integer
ArchivoSinNumero ==
  [existe |-> TRUE,
   lineas |-> <<<<"x">>, <<"S", " ", "-", ">", " ", "a">>>>]

ArchivoUnaRegla ==
  [existe |-> TRUE,
   lineas |-> <<<<"1">>, <<"S", " ", "-", ">", " ", "a">>, <<"a">>>>]

\* zero productions declared
ArchivoCeroReglas ==
  [existe |-> TRUE,
   lineas |-> <<<<"0">>, <<"a", "b">>>>]

ArchivoMenosUno ==
  [existe |-> TRUE,
   lineas |-> <<<<"-", "1">>, <<"a", "b">>>>]

\* two alternatives, the second one empty; the line 'e' ends the strings
ArchivoAlternativas ==
  [existe |-> TRUE,
   lineas |-> <<<<"1">>, <<"S", " ", "-", ">", " ", "a", "S", "b", " ", "e">>, <<"a", "b">>, <<>>, <<"e">>, <<"b">>>>]

\* two productions declared, one line
ArchivoCorto ==
  [existe |-> TRUE,
   lineas |-> <<<<"2">>, <<"S", " ", "-", ">", " ", "a">>>>]

ArchivoSinFlecha ==
  [existe |-> TRUE,
   lineas |-> <<<<"1">>, <<"S", " ", "a">>, <<"a">>>>]

ArchivoDosFlechas ==
  [existe |-> TRUE,
   lineas |-> <<<<"1">>, <<"S", " ", "-", ">", " ", "a", " ", "-", ">", " ", "b">>>>]

ArchivoInicialA ==
  [existe |-> TRUE,
   lineas |-> <<<<"2">>, <<"A", " ", "-", ">", " ", "S", "b">>, <<"S", " ", "-", ">", " ", "a">>, <<"a", "b">>>>]

ArchivoDosEspacios ==
  [existe |-> TRUE,
   lineas |-> <<<<"1">>, <<"S", " ", "-", ">", " ", "a", " ", " ", "b">>, <<"b">>>>]

ArchivoConBlancos ==
  [existe |-> TRUE,
   lineas |-> <<<<" ", "1", " ">>, <<" ", "S", "-", ">", "a", "b", " ">>, <<" ", "a", " ">>>>]

Archivos ==
  {ArchivoQueFalta, ArchivoVacio, ArchivoSinNumero, ArchivoUnaRegla,
   ArchivoCeroReglas, ArchivoMenosUno, ArchivoAlternativas,
   ArchivoCorto, ArchivoSinFlecha, ArchivoDosFlechas,
   ArchivoInicialA, ArchivoDosEspacios, ArchivoConBlancos}

\* exit(): SystemExit without a code, the process ends with status 0.
exit == [estado |-> "terminado", usar |-> "None", salida |-> "0"]

\* The module as its import leaves it: the globals of lines 4-6, nothing
\* computed.  No name read from these files is the string "None".
InitArchivos ==
  /\ reglas_gramatica = <<>>
  /\ cadenas_a_procesar = <<>>
  /\ simbolo_inicial = "None"
  /\ pc = "carga"
  /\ primeros = <<>>
  /\ siguientes = <<>>
  /\ visitados = <<>>
  /\ hubo_cambios = FALSE
  /\ idx = 0
  /\ tabla_ll1 = <<>>
  /\ conflictos_ll1 = FALSE
  /\ es_slr1_valido = [estado |-> "inactivo", resultado |-> "None"]
  /\ llamada = SinLlamada
  /\ principal = PrincipalInicial
  /\ archivos_leidos = <<>>

\* A call of leer_gramatica, by main or by any caller of the module.
LeerGramatica ==
  /\ pc = "carga"
  /\ principal.estado = "corriendo"
  /\ Len(archivos_leidos) < MaxCargas
  /\ \E archivo \in Archivos :
       LET r == leer_gramatica(archivo, simbolo_inicial) IN
       /\ reglas_gramatica' = r.reglas
       /\ cadenas_a_procesar' = r.cadenas
       /\ simbolo_inicial' = r.inicial
       /\ principal' = IF r.salio THEN exit ELSE principal
       /\ archivos_leidos' = Append(archivos_leidos, archivo)
  /\ UNCHANGED <<pc, primeros, siguientes, visitados, hubo_cambios, idx,
                 tabla_ll1, conflictos_ll1, es_slr1_valido, llamada>>

NextArchivos == LeerGramatica

SpecArchivos == InitArchivos /\ [][NextArchivos]_vars

\* ------------------------------------------ analizar_slr1 on any tables
\* analizar_slr1 takes its tables, rules and terminals as arguments.  Here
\* it is called on every table over the states below, for the rules
\* S' -> S, S -> aS, S -> '' (right-hand sides of length 1, 2 and 0).
EstadosTabla == {0, 1}

\* Value of the cursor i beyond which a call is not followed: a table that
\* shifts on '$' advances it without end.
MaxCursor == 4

TerminalesTabla == {"a", "$"}

NoTerminalesTabla == {"S"}

ReglasTabla == << <<"S", <<"a", "S">> >>, <<"S", <<>> >> >>

AccionesTabla ==
  {SinAccion, Aceptar} \cup {Desplazar(j) : j \in EstadosTabla}
  \cup {Reducir(r) : r \in 0..Len(ReglasTabla)}

GotosTabla == {SinGoto} \cup {Ir(j) : j \in EstadosTabla}

\* The arguments tabla_accion, tabla_goto, estados, reglas_ampliadas.
Tablas ==
  {[accion |-> ac, goto |-> go, reportados |-> {}, reemplazos |-> {},
    estados |-> <<>>, reglas_ampliadas |-> reglas_ampliadas(ReglasTabla, "S")] :
     ac \in [EstadosTabla -> [TerminalesTabla -> AccionesTabla]],
     go \in [EstadosTabla -> [NoTerminalesTabla -> GotosTabla]]}

\* The record of a running call of analizar_slr1.
LlamadaDe(ll, cadena, tb) ==
  [fn |-> "analizar_slr1", estado |-> ll.estado, cadena |-> cadena,
   resultado |-> ll.resultado, tablas |-> tb,
   pila_estados |-> ll.pila_estados, pila_simbolos |-> ll.pila_simbolos,
   i |-> ll.i]

\* analizar_slr1 has been entered: pila_estados = [0], pila_simbolos = [],
\* i = 0.  The strings are over a, b: b is no terminal of the tables.
InitSLR1 ==
  /\ reglas_gramatica = ReglasTabla
  /\ simbolo_inicial = "S"
  /\ \E k \in 1..Len(CadenasBase), tb \in Tablas :
       /\ cadenas_a_procesar = <<CadenasBase[k]>>
       /\ llamada = LlamadaDe(SLR1Inicial(CadenasBase[k]), CadenasBase[k], tb)
  /\ pc = "analizar_slr1"
  /\ primeros = <<>>
  /\ siguientes = <<>>
  /\ visitados = <<>>
  /\ hubo_cambios = FALSE
  /\ idx = 0
  /\ tabla_ll1 = <<>>
  /\ conflictos_ll1 = FALSE
  /\ es_slr1_valido = [estado |-> "inactivo", resultado |-> "None"]
  /\ principal = PrincipalInicial
  /\ archivos_leidos = <<>>

\* One iteration of `while True` of analizar_slr1.
AnalizarSLR1Paso ==
  /\ pc = "analizar_slr1"
  /\ EnCurso
  /\ Len(llamada.pila_estados) <= MaxPila
  /\ llamada.i <= MaxCursor
  /\ llamada' = LlamadaDe(SLR1Paso(llamada, llamada.tablas, TerminalesTabla),
                          llamada.cadena, llamada.tablas)
  /\ UNCHANGED <<globales, proceso, pc, primeros, siguientes, visitados,
                 hubo_cambios, idx, tabla_ll1, conflictos_ll1, es_slr1_valido>>

NextSLR1 == AnalizarSLR1Paso

SpecSLR1 == InitSLR1 /\ [][NextSLR1]_vars

\* ------------------------------------------------- reference definitions
\* What the properties below compare the program with.  These are the
\* textbook definitions, computed without the program's loops.

\* cadena without its final '$'
SinFin(cadena) == SubSeq(cadena, 1, Len(cadena) - 1)

FuePrimeros == pc # "primeros" /\ pc # "colgado"
FueSiguientes == pc \in {"es_slr1", "principal", "listo"}
FueTablaLL1 == pc \in {"es_slr1", "principal", "listo"}

\* The non-terminals that derive the empty string: the least set N with A in
\* N whenever some production of A has all its symbols in N.
RECURSIVE AnulablesDesde(_, _)
AnulablesDesde(N, reglas) ==
  LET N1 == N \cup {reglas[k][1] : k \in
                      {j \in 1..Len(reglas) : Rango(reglas[j][2]) \subseteq N}}
  IN IF N1 = N THEN N ELSE AnulablesDesde(N1, reglas)

Anulables(reglas) == AnulablesDesde({}, reglas)

\* The positions <<k, i>> of the symbols in the right-hand sides.
TodasPosiciones(reglas) ==
  UNION {{<<k, i>> : i \in 1..Len(reglas[k][2])} : k \in 1..Len(reglas)}

\* The symbols a walk over a production of A reaches through a nullable prefix.
Empieza(A, reglas) ==
  {reglas[p[1]][2][p[2]] : p \in
     {q \in TodasPosiciones(reglas) :
        /\ reglas[q[1]][1] = A
        /\ \A m \in 1..(q[2] - 1) : reglas[q[1]][2][m] \in Anulables(reglas)}}

RECURSIVE AlcanzaDesde(_, _)
AlcanzaDesde(X, reglas) ==
  LET X1 == X \cup UNION {Empieza(A, reglas) : A \in X}
  IN IF X1 = X THEN X ELSE AlcanzaDesde(X1, reglas)

\* FIRST(A) of section 4.2
PrimerosRef(A, reglas) ==
  {t \in AlcanzaDesde({A}, reglas) : t \in conjunto_terminales(reglas)} \cup
  (IF A \in Anulables(reglas) THEN {"e"} ELSE {})

\* FIRST(beta) for a string of symbols
RECURSIVE PrimerosSecRef(_, _)
PrimerosSecRef(beta, reglas) ==
  IF beta = <<>> THEN {"e"}
  ELSE IF Head(beta) \in conjunto_no_terminales(reglas) THEN
    (PrimerosRef(Head(beta), reglas) \ {"e"}) \cup
    (IF Head(beta) \in Anulables(reglas)
       THEN PrimerosSecRef(Tail(beta), reglas) ELSE {})
  ELSE {Head(beta)}

Sufijo(deriv, i) == SubSeq(deriv, i + 1, Len(deriv))

\* The positions <<k, i>> of the non-terminals in the right-hand sides.
Posiciones(reglas) ==
  {p \in TodasPosiciones(reglas) :
     reglas[p[1]][2][p[2]] \in conjunto_no_terminales(reglas)}

\* The least fixpoint of the rules of section 4.3
RECURSIVE SiguientesRefDesde(_, _)
SiguientesRefDesde(F, reglas) ==
  LET F1 == [X \in DOMAIN F |->
               F[X] \cup UNION
                 {(PrimerosSecRef(Sufijo(reglas[p[1]][2], p[2]), reglas) \ {"e"}) \cup
                  (IF "e" \in PrimerosSecRef(Sufijo(reglas[p[1]][2], p[2]), reglas)
                     THEN F[reglas[p[1]][1]] ELSE {})
                  : p \in {q \in Posiciones(reglas) : reglas[q[1]][2][q[2]] = X}}]
  IN IF F1 = F THEN F ELSE SiguientesRefDesde(F1, reglas)

SiguientesRef(reglas, inicial) ==
  SiguientesRefDesde(
    [X \in conjunto_no_terminales(reglas) |-> IF X = inicial THEN {"$"} ELSE {}],
    reglas)

\* Derivability: D holds <<X, i, j>> when X derives w[i+1..j].
RECURSIVE DerivaSec(_, _, _, _, _, _)
DerivaSec(alfa, i, j, D, w, CNT) ==
  IF alfa = <<>> THEN i = j
  ELSE \E k \in i..j :
         /\ IF Head(alfa) \in CNT THEN <<Head(alfa), i, k>> \in D
            ELSE k = i + 1 /\ w[k] = Head(alfa)
         /\ DerivaSec(Tail(alfa), k, j, D, w, CNT)

RECURSIVE DerivaDesde(_, _, _)
DerivaDesde(D, reglas, w) ==
  LET D1 == D \cup
        {<<reglas[t[1]][1], t[2], t[3]>> : t \in
           {u \in (1..Len(reglas)) \X (0..Len(w)) \X (0..Len(w)) :
              u[2] <= u[3] /\
              DerivaSec(reglas[u[1]][2], u[2], u[3], D, w,
                        conjunto_no_terminales(reglas))}}
  IN IF D1 = D THEN D ELSE DerivaDesde(D1, reglas, w)

\* inicial =>* w
Derivable(reglas, inicial, w) ==
  <<inicial, 0, Len(w)>> \in DerivaDesde({}, reglas, w)

\* ------------------------------------------------------------------ claims
LL1Termino ==
  /\ pc = "listo"
  /\ llamada.fn = "analizar_ll1"
  /\ llamada.estado # "corriendo"

\* C1: on a grammar for which construir_tabla_ll1 reports no conflict, for
\* every string w over the grammar's terminals, a call of analizar_ll1 on w$
\* that has ended has returned True if and only if w is derivable from the
\* start symbol.
C1_LL1AceptaElLenguaje ==
  (LL1Termino /\ ~conflictos_ll1 /\ Rango(SinFin(llamada.cadena)) \subseteq TT)
    => (llamada.resultado = "True"
          <=> Derivable(reglas_gramatica, simbolo_inicial, SinFin(llamada.cadena)))

ReconocedorTermino ==
  /\ pc = "listo"
  /\ llamada.fn \in {"analizar_ll1", "analizar_slr1"}
  /\ llamada.estado = "retorno"

\* C2: no recognizer returns True for a string that is not derivable from the
\* start symbol: whenever analizar_ll1 or analizar_slr1 has returned on w$
\* and w is not derivable, the value returned is not True.
C2_SoloAceptaDerivables ==
  (ReconocedorTermino /\
   ~Derivable(reglas_gramatica, simbolo_inicial, SinFin(llamada.cadena)))
    => llamada.resultado # "True"

\* A recognizer has returned on a string that is not in the language, and on
\* a string of the grammar's terminals.
C2_Testigo ==
  /\ ReconocedorTermino
  /\ SinFin(llamada.cadena) # <<>>
  /\ Rango(SinFin(llamada.cadena)) \subseteq TT
  /\ ~Derivable(reglas_gramatica, simbolo_inicial, SinFin(llamada.cadena))

\* C3: in the FOLLOW map returned, for every production A -> X1...Xn and
\* every position i with Xi a non-terminal, FIRST(X(i+1)...Xn) minus epsilon
\* is a subset of FOLLOW(Xi), FIRST taken over the whole suffix.
C3_PrimerosDelSufijoEnSiguientes ==
  FueSiguientes =>
    \A p \in Posiciones(reglas_gramatica) :
      (PrimerosSecRef(Sufijo(reglas_gramatica[p[1]][2], p[2]), reglas_gramatica)
         \ {"e"}) \subseteq siguientes[reglas_gramatica[p[1]][2][p[2]]]

\* C4: in the FOLLOW map returned, for every production A -> alpha B beta
\* with B a non-terminal and beta empty or nullable, FOLLOW(A) is a subset of
\* FOLLOW(B).
C4_SiguientesDelPadre ==
  FueSiguientes =>
    \A p \in Posiciones(reglas_gramatica) :
      "e" \in PrimerosSecRef(Sufijo(reglas_gramatica[p[1]][2], p[2]),
                             reglas_gramatica)
        => siguientes[reglas_gramatica[p[1]][1]] \subseteq
             siguientes[reglas_gramatica[p[1]][2][p[2]]]

\* C5: the FOLLOW map returned holds nothing beyond the least fixpoint of the
\* rules of section 4.3.
C5_SiguientesDentroDelPuntoFijo ==
  FueSiguientes =>
    \A X \in NT :
      siguientes[X] \subseteq SiguientesRef(reglas_gramatica, simbolo_inicial)[X]

\* C6: in every state of the FOLLOW iteration and in the map returned, '$' is
\* in FOLLOW of the start symbol and 'e' is in no FOLLOW set.
C6_InvarianteSiguientes ==
  FuePrimeros =>
    /\ "$" \in siguientes[simbolo_inicial]
    /\ \A X \in NT : "e" \notin siguientes[X]

\* The iteration is inside a pass, it has added a terminal to the FOLLOW set
\* of a non-terminal that a nullable non-terminal follows.
C6_Testigo ==
  /\ pc = "siguientes"
  /\ idx > 1
  /\ \E p \in Posiciones(reglas_gramatica) :
       /\ p[1] < idx
       /\ p[2] < Len(reglas_gramatica[p[1]][2])
       /\ reglas_gramatica[p[1]][2][p[2] + 1] \in NT
       /\ "e" \in primeros[reglas_gramatica[p[1]][2][p[2] + 1]]
       /\ primeros[reglas_gramatica[p[1]][2][p[2] + 1]] # {"e"}
       /\ siguientes[reglas_gramatica[p[1]][2][p[2]]] \ {"$"} # {}

\* C7: calcular_conjuntos_primeros returns, for every non-terminal A, the
\* least fixpoint of the rules of section 4.2: 'e' is in FIRST(A) iff A
\* derives the empty string, and a terminal is in FIRST(A) iff a production
\* walk of A reaches it through nullable prefixes.
C7_PrimerosEsPuntoFijo ==
  FuePrimeros =>
    \A A \in NT : primeros[A] = PrimerosRef(A, reglas_gramatica)

\* FIRST has been returned for a grammar in which a terminal is reached past
\* a nullable non-terminal, and a non-terminal is nullable through a
\* non-empty production.
C7_Testigo ==
  /\ FuePrimeros
  /\ \E p \in TodasPosiciones(reglas_gramatica) :
       /\ p[2] > 1
       /\ reglas_gramatica[p[1]][2][p[2]] \in TT
       /\ reglas_gramatica[p[1]][2][p[2] - 1] \in Anulables(reglas_gramatica)
       /\ reglas_gramatica[p[1]][2][p[2]] \in primeros[reglas_gramatica[p[1]][1]]
  /\ \E k \in 1..Len(reglas_gramatica) :
       /\ reglas_gramatica[k][2] # <<>>
       /\ Rango(reglas_gramatica[k][2]) \subseteq Anulables(reglas_gramatica)
       /\ "e" \in primeros[reglas_gramatica[k][1]]

\* The predict set of production k: FIRST(alpha) without epsilon, united with
\* FOLLOW(A) when alpha is nullable, over the maps the builder received.
Prediccion(k) ==
  LET f == PrimerosSecRef(reglas_gramatica[k][2], reglas_gramatica) IN
  (f \ {"e"}) \cup (IF "e" \in f THEN siguientes[reglas_gramatica[k][1]] ELSE {})

\* C8: construir_tabla_ll1 returns the conflict flag True if and only if two
\* distinct productions of the same non-terminal have predict sets that
\* intersect.
C8_ConflictoSiSoloSiPrediccion ==
  FueTablaLL1 =>
    (conflictos_ll1 <=>
       \E j, k \in 1..Len(reglas_gramatica) :
         /\ reglas_gramatica[j] # reglas_gramatica[k]
         /\ reglas_gramatica[j][1] = reglas_gramatica[k][1]
         /\ Prediccion(j) \cap Prediccion(k) # {})

ConstruccionTermino ==
  /\ pc = "listo"
  /\ llamada.fn \in {"construir_tabla_slr1", "analizar_slr1"}
  /\ llamada.estado # "corriendo"

\* construir_tabla_slr1 did not attempt to set a defined ACTION cell to a
\* different action.
SinIntentoDeConflicto ==
  \/ llamada.fn = "construir_tabla_slr1"
  \/ /\ llamada.fn = "analizar_slr1"
     /\ llamada.tablas.reportados = {}
     /\ llamada.tablas.reemplazos = {}

\* C9: es_slr1 returns True if and only if construir_tabla_slr1, run on the
\* same grammar and FOLLOW map, never attempts to set an already-defined
\* ACTION cell to a different action.
C9_EsSLR1ConcuerdaConLaTabla ==
  ConstruccionTermino =>
    (es_slr1_valido.resultado = "True" <=> SinIntentoDeConflicto)

\* The verdict scenario A expects for an input string.
EsperadoA(cadena) ==
  IF cadena = <<"1", "+", "$">> THEN "False" ELSE "True"

\* C10: for the grammar S -> S+T | T, T -> T*F | F, F -> (S) | 1:
\* construir_tabla_ll1 reports a conflict, es_slr1 returns True, and the
\* SLR(1) recognizer accepts 1+1$, (1)$ and 1*1+1$ and rejects 1+$.
C10_EscenarioA ==
  reglas_gramatica = EjemploA.reglas =>
    /\ FueTablaLL1 => conflictos_ll1
    /\ pc = "listo" => es_slr1_valido.resultado = "True"
    /\ ConstruccionTermino =>
         /\ llamada.fn = "analizar_slr1"
         /\ llamada.estado = "retorno"
         /\ llamada.resultado = EsperadoA(llamada.cadena)

\* A call of a recognizer, or of the table builder that precedes the SLR(1)
\* recognizer, has ended.
AnalisisTermino ==
  /\ pc = "listo"
  /\ llamada.fn \in {"analizar_ll1", "construir_tabla_slr1", "analizar_slr1"}
  /\ llamada.estado # "corriendo"

\* The verdict scenario E expects for an input string.
EsperadoE(cadena) ==
  IF cadena = <<"b", "d", "d", "$">> THEN "False" ELSE "True"

\* C11: for the grammar S -> Aa, S -> bAc, S -> dc, S -> bda, A -> d:
\* construir_tabla_ll1 reports no conflict, es_slr1 returns True, and the
\* recognizers accept da$, bdc$, dc$, bda$ and reject bdd$.
C11_EscenarioE ==
  (reglas_gramatica = EjemploE.reglas /\ pc = "listo") =>
    /\ ~conflictos_ll1
    /\ es_slr1_valido.estado = "retorno"
    /\ es_slr1_valido.resultado = "True"
    /\ AnalisisTermino =>
         /\ llamada.fn \in {"analizar_ll1", "analizar_slr1"}
         /\ llamada.estado = "retorno"
         /\ llamada.resultado = EsperadoE(llamada.cadena)

\* The verdict scenario D expects for an input string.
EsperadoD(cadena) ==
  IF cadena \in {<<"a", "b", "b", "$">>, <<"a", "a", "b", "$">>}
    THEN "False" ELSE "True"

\* C12: for the grammar S -> aSb, S -> epsilon: construir_tabla_ll1 reports
\* no conflict, es_slr1 returns True, and each of analizar_ll1 and
\* analizar_slr1 accepts $, ab$, aabb$, aaabbb$ and rejects abb$, aab$.
C12_EscenarioD ==
  (reglas_gramatica = EjemploD.reglas /\ pc = "listo") =>
    /\ ~conflictos_ll1
    /\ es_slr1_valido.estado = "retorno"
    /\ es_slr1_valido.resultado = "True"
    /\ AnalisisTermino =>
         /\ llamada.fn \in {"analizar_ll1", "analizar_slr1"}
         /\ llamada.estado = "retorno"
         /\ llamada.resultado = EsperadoD(llamada.cadena)

\* C13: for the grammar S -> SS, S -> a: construir_tabla_ll1 reports a
\* conflict, es_slr1 returns False, and main then runs no recognizer on any
\* input string of the grammar.
C13_EscenarioF ==
  (reglas_gramatica = EjemploF.reglas /\ pc = "listo") =>
    /\ conflictos_ll1
    /\ es_slr1_valido.estado = "retorno"
    /\ es_slr1_valido.resultado = "False"
    /\ principal.estado = "omitido"
    /\ principal.usar = "ninguno"

\* C14: for every finite grammar the fixpoint loops return after finitely
\* many steps; no inner symbol walk stays on the same position forever: the
\* walk `while i < len(derivacion)` never stands on a symbol on which it
\* neither stops nor advances.
C14_NingunRecorridoSeEstanca ==
  pc # "colgado"

\* One run of the state enumeration and of the conflict check of es_slr1 in
\* which `for simbolo in simbolos` yields the symbols in one fixed order.
RECURSIVE EsSLR1EnOrdenDesde(_)
EsSLR1EnOrdenDesde(c) ==
  IF Terminada(c) THEN
    [estado |-> "retorno",
     resultado |-> es_slr1(c.estados, simbolo_inicial, siguientes, TT)]
  ELSE
    LET r == ColeccionPaso(c, CHOOSE simbolo \in c.pend : TRUE, reglas_gramatica)
    IN IF ~r.ok THEN [estado |-> "excepcion", resultado |-> r.exc]
       ELSE EsSLR1EnOrdenDesde(r.val)

EsSLR1EnOrden ==
  LET c == ColeccionInicial(reglas_gramatica, simbolo_inicial) IN
  IF ~c.ok THEN [estado |-> "excepcion", resultado |-> c.exc]
  ELSE EsSLR1EnOrdenDesde(c.val)

\* C15: for a fixed grammar every run ends with the same FIRST and FOLLOW
\* maps, the same LL(1) table and conflict flag and the same outcome of
\* es_slr1 and of construir_tabla_slr1, whatever the order in which the
\* elements of a set are iterated: each equals the outcome of the run that
\* takes the symbols in the fixed order.
C15_MismaSalidaEnCadaCorrida ==
  pc \in {"principal", "listo"} =>
    /\ primeros = calcular_conjuntos_primeros(reglas_gramatica, NT, TT).p
    /\ siguientes = calcular_conjuntos_siguientes(reglas_gramatica, simbolo_inicial,
                                                  primeros, NT, TT)
    /\ tabla_ll1 = construir_tabla_ll1(reglas_gramatica, primeros, siguientes,
                                       NT, TT).t
    /\ conflictos_ll1 = construir_tabla_ll1(reglas_gramatica, primeros, siguientes,
                                            NT, TT).c
    /\ es_slr1_valido = EsSLR1EnOrden
    /\ (llamada.fn = "construir_tabla_slr1" /\ llamada.estado = "excepcion")
         => llamada.resultado = EsSLR1EnOrden.resultado

\* The file of the last call of leer_gramatica.
UltimoArchivo == archivos_leidos[Len(archivos_leidos)]

\* The first line of the file is an integer.
PrimeraLineaEntera(archivo) == int(strip(readline(archivo.lineas, 1))).ok

\* C16: the process ends with a non-zero exit status when the grammar file
\* is missing or when its first line is not an integer, and with exit
\* status zero in every other case.
C16_EstadoDeSalida ==
  principal.estado = "terminado" =>
    (principal.salida # "0" <=>
       (~UltimoArchivo.existe \/ ~PrimeraLineaEntera(UltimoArchivo)))

\* C17: after any sequence of calls of leer_gramatica that returned, the
\* three globals are those that loading the last file alone gives: nothing
\* an earlier load set survives, also when the last file declares zero
\* productions.
C17_SoloElUltimoArchivo ==
  (archivos_leidos # <<>> /\ principal.estado = "corriendo") =>
    LET solo == leer_gramatica(UltimoArchivo, "None") IN
    globales = <<solo.reglas, solo.cadenas, solo.inicial>>

\* The symbols that stand immediately after the dot of an item of I.
TrasElPunto(I) == {it[1][2][it[2] + 1] : it \in {x \in I : x[2] < Len(x[1][2])}}

\* The left-hand sides whose items (B -> . gamma) the closure of a set with
\* the symbols N after its dots holds: N and, to a fixpoint, the first symbol
\* of every production of a member.
RECURSIVE LadosIzquierdosDesde(_, _)
LadosIzquierdosDesde(N, reglas) ==
  LET mas == N \cup {reglas[k][2][1] : k \in
                       {j \in 1..Len(reglas) :
                          reglas[j][1] \in N /\ reglas[j][2] # <<>>}}
  IN IF mas = N THEN N ELSE LadosIzquierdosDesde(mas, reglas)

\* Closure of the item set I.
Cerradura(I, reglas) ==
  I \cup {<<reglas[k], 0>> : k \in
            {j \in 1..Len(reglas) :
               reglas[j][1] \in LadosIzquierdosDesde(TrasElPunto(I), reglas)}}

\* Goto(I, X): the closure of the items of I with X after the dot, the dot
\* moved over X; the empty set when there is no such item.
Goto(I, X, reglas) ==
  LET avanzados == {<<it[1], it[2] + 1>> : it \in
                      {x \in I : x[2] < Len(x[1][2]) /\ x[1][2][x[2] + 1] = X}}
  IN IF avanzados = {} THEN {} ELSE Cerradura(avanzados, reglas)

\* C18: for the item set I that es_slr1 is expanding and every symbol X,
\* ir_a(I, X) returns exactly Goto(I, X): the closure of the advanced items,
\* the empty set when no item of I has X after its dot.
C18_IrAEsLaCerradura ==
  pc = "es_slr1" =>
    LET c == ColeccionDe(es_slr1_valido) IN
    (c.ok /\ ~Terminada(c.val)) =>
      \A X \in SimbolosGramatica \cup {"$"} :
        ir_a(c.val.estados[c.val.i + 1], X, reglas_gramatica) =
          Valor(Goto(c.val.estados[c.val.i + 1], X, reglas_gramatica))

\* The canonical collection of LR(0) item sets: the closure of the initial
\* item and, to a fixpoint, every non-empty Goto of a member.
RECURSIVE ColeccionRefDesde(_, _)
ColeccionRefDesde(C, reglas) ==
  LET mas == C \cup ({Goto(I, X, reglas) : I \in C, X \in Rango(Aplanar(reglas))}
                     \ {{}})
  IN IF mas = C THEN C ELSE ColeccionRefDesde(mas, reglas)

ColeccionRef(reglas, inicial) ==
  ColeccionRefDesde({Cerradura({ItemInicial(inicial)}, reglas)}, reglas)

\* The number of different actions the SLR(1) construction assigns to the
\* cell ACTION[I, a]: a shift when a terminal a stands after a dot, accept
\* on '$' for the completed augmented item, a reduction for every production
\* completed in I whose left-hand side has a in its FOLLOW set.
AccionesDeCelda(I, a, inicial, sig, CT) ==
  (IF a \in CT /\ a \in TrasElPunto(I) THEN 1 ELSE 0)
  + (IF a = "$" /\ <<ItemInicial(inicial)[1], 1>> \in I THEN 1 ELSE 0)
  + Cardinality({it[1] : it \in
       {x \in I : /\ x[2] = Len(x[1][2])
                  /\ x[1][1] # Prima(inicial)
                  /\ a \in sig[x[1][1]]}})

\* The cells to which two different actions are assigned.
CeldasDisputadas ==
  {cel \in ColeccionRef(reglas_gramatica, simbolo_inicial) \X TT :
     AccionesDeCelda(cel[1], cel[2], simbolo_inicial, siguientes, TT) > 1}

\* C19: when construir_tabla_slr1 has run on a grammar in which two
\* different actions are assigned to a cell ACTION[i, a], it has reported a
\* conflict naming state i and terminal a, in whatever order the items of a
\* state were visited, and it has replaced no action already defined.
C19_TodoConflictoSeInforma ==
  (ConstruccionTermino /\ CeldasDisputadas # {}) =>
    /\ llamada.fn = "analizar_slr1"
    /\ llamada.tablas.reemplazos = {}
    /\ \A cel \in CeldasDisputadas :
         \E i \in 0..(Len(llamada.tablas.estados) - 1) :
           /\ llamada.tablas.estados[i + 1] = cel[1]
           /\ <<i, cel[2]>> \in llamada.tablas.reportados

\* C20: grammar conflicts are not fatal and the two verdicts are independent.
\* Once main is past the choice of the recognizer: a conflict recorded by
\* construir_tabla_ll1 has not kept es_slr1 from returning its verdict; main
\* uses SLR(1) when only es_slr1 is True, LL(1) when only the LL(1) table is
\* free of conflicts, and skips the batch exactly when both report conflicts.
C20_ConflictosNoFatales ==
  pc = "listo" =>
    LET es_ll1 == ~conflictos_ll1
        slr1 == es_slr1_valido.resultado = "True"
    IN /\ conflictos_ll1 => es_slr1_valido.estado = "retorno"
       /\ (slr1 /\ ~es_ll1) => principal.usar = "slr1"
       /\ (es_ll1 /\ ~slr1) => principal.usar = "ll1"
       /\ principal.estado = "omitido" <=> (~es_ll1 /\ ~slr1)

\* analizar_slr1 is at the start of an iteration of its loop.
EnIteracion(ll) == ll.fn = "analizar_slr1" /\ ll.estado = "corriendo"

\* The input symbol under the cursor.
SimboloDeEntrada(ll) ==
  IF ll.i >= Len(ll.cadena) THEN "$" ELSE ll.cadena[ll.i + 1]

\* The action the tables give for the top state and the input symbol.
AccionDe(ll) ==
  LET fila == ll.tablas.accion[ll.pila_estados[Len(ll.pila_estados)]] IN
  IF SimboloDeEntrada(ll) \in TerminalesTabla \cap DOMAIN fila
    THEN fila[SimboloDeEntrada(ll)] ELSE SinAccion

\* What a shift does to the stacks and the cursor.
EfectoDesplazar(antes, despues) ==
  /\ despues.pila_estados = Append(antes.pila_estados, AccionDe(antes).n)
  /\ despues.pila_simbolos = Append(antes.pila_simbolos, SimboloDeEntrada(antes))
  /\ despues.i = antes.i + 1

\* What a reduction by A -> alpha that continues does: |alpha| entries leave
\* each stack, A and GOTO[s'', A] are pushed, the cursor stays.
EfectoReducir(antes, despues) ==
  LET regla == antes.tablas.reglas_ampliadas[AccionDe(antes).n + 1][1]
      n == Len(regla[2])
      pe == antes.pila_estados
      ps == antes.pila_simbolos
  IN /\ Len(pe) > n
     /\ Len(ps) >= n
     /\ despues.pila_simbolos = Append(SubSeq(ps, 1, Len(ps) - n), regla[1])
     /\ despues.pila_estados =
          Append(SubSeq(pe, 1, Len(pe) - n),
                 antes.tablas.goto[pe[Len(pe) - n]][regla[1]].n)
     /\ despues.i = antes.i

\* C21: in analizar_slr1, for any tables and any input, at the start of
\* every iteration the state stack is not empty and holds one entry more
\* than the symbol stack; an iteration that is followed by another one is a
\* shift, which pushes one entry on each stack and advances the cursor by
\* one, or a reduction by A -> alpha, which pops |alpha| entries from each
\* stack, pushes A and GOTO[s'', A] and leaves the cursor where it is.
C21_PilasParalelas ==
  /\ [](EnIteracion(llamada) =>
          /\ llamada.pila_estados # <<>>
          /\ Len(llamada.pila_estados) = Len(llamada.pila_simbolos) + 1)
  /\ [][(EnIteracion(llamada) /\ EnIteracion(llamada')) =>
          /\ AccionDe(llamada).op \in {"desplazar", "reducir"}
          /\ AccionDe(llamada).op = "desplazar" => EfectoDesplazar(llamada, llamada')
          /\ AccionDe(llamada).op = "reducir" => EfectoReducir(llamada, llamada')]_vars

\* A call that has shifted twice and then reduced, and goes on.
C21_Testigo ==
  /\ EnIteracion(llamada)
  /\ pc = "analizar_slr1"
  /\ llamada.i >= 2
  /\ Len(llamada.pila_estados) >= 3
  /\ llamada.pila_simbolos[Len(llamada.pila_simbolos)] = "S"
  /\ llamada.pila_simbolos[1] = "a"

====
